---- MODULE Spec2Model ----
(***************************************************************************)
(* Vehicle price lookup page (NitrogeniumOnFire/NNDL-Final).               *)
(*                                                                         *)
(* Two variants of the page script exist in the repository:               *)
(*   "simple"  = src/app.js              (data.json only)                  *)
(*   "labeled" = src/unnamed/part_000    (data.json + label_mappings.json) *)
(* Both load the dataset once, register the click handlers, and answer a   *)
(* click on "Predict" by an exact-match scan followed, when that finds     *)
(* nothing, by a weighted nearest-match scan.                              *)
(*                                                                         *)
(* Units.  Engine Volume is held in units of 1/UnitsPerLitre litre, so     *)
(* 4000 is 2.0 L and 4001 is 2.0005 L; predicted_price is held in cents.   *)
(* Where the script computes with these values they become the IEEE 754    *)
(* doubles JavaScript has: 2.001 - 2 is 0.0009999999999998899 and 0.1 * 3  *)
(* is 0.30000000000000004 here as they are there.                          *)
(***************************************************************************)
EXTENDS Integers, Sequences, FiniteSets

VARIABLES
    variant,     \* which script the page runs: "simple" or "labeled"
    file,        \* the document data.json holds: rows and unique
    pc,          \* where loadData stands: "fetch", "labels", "done", "caught"
    loads,       \* number of times this page assigned DATA
    DATA,        \* the global DATA: Null or the document
    options,     \* the values offered by the ten selects
    registered,  \* TRUE once populateControls added the click listeners
    form,        \* the values of the thirteen form controls
    price,       \* content of #price
    explain,     \* content of #explain
    details,     \* content of .details
    toast,       \* text of the most recent toast
    last         \* the event handled last and the locals it ended with

vars == <<variant, file, pc, loads, DATA, options, registered, form, price,
          explain, details, toast, last>>

----------------------------------------------------------------------------
(* Bounds and program constants *)

MaxRows == 2

EpsilonInv == 1000

UnitsPerLitre == 2 * EpsilonInv

YearDenominator == 10

W_Manufacturer == 5

W_Model == 5

W_Category == 3

W_FuelType == 3

W_GearboxType == 2

W_DriveWheels == 2

W_LeatherInterior == 1

engineVolWeight == 2

mileageWeight == 1

yearWeight == 3

airbagsWeight == 1

----------------------------------------------------------------------------
(* JavaScript values read from the form *)

Null == [null |-> TRUE]

\* A property the document does not have
Undefined == [undefined |-> TRUE]

\* A parsed integer that may be NaN.
NaN == [nan |-> TRUE, v |-> 0]

Num(n) == [nan |-> FALSE, v |-> n]

\* a === b on numbers: NaN equals nothing, itself included.
StrictEq(a, b) == ~a.nan /\ ~b.nan /\ a.v = b.v

\* !x on a number: 0 and NaN are falsy.
Falsy(a) == a.nan \/ a.v = 0

Abs(x) == IF x < 0 THEN -x ELSE x

\* The text of a numeric form control: empty, or the decimal text of n.
NoText == [blank |-> TRUE, n |-> 0]

Text(n) == [blank |-> FALSE, n |-> n]

\* String(n) as the DOM stores a number assigned to .value
ToString(n) == Text(n)

\* parseInt(text, 10) / parseFloat(text): NaN on the empty string.
ParseNumber(t) == IF t.blank THEN NaN ELSE Num(t.n)

\* x || 0
OrZero(a) == IF Falsy(a) THEN 0 ELSE a.v

----------------------------------------------------------------------------
(* JavaScript numbers in arithmetic: IEEE 754 binary64, round to nearest,  *)
(* ties to even.  A mantissa is held in two limbs, hi * Limb + lo.         *)

LimbBits == 27

MantissaBits == 53

\* Extra low bits carried through an addition before rounding
GuardBits == 3

Pow2(k) == 2 ^ k

Limb == Pow2(LimbBits)

RECURSIVE BitLen(_)
BitLen(n) == IF n = 0 THEN 0 ELSE 1 + BitLen(n \div 2)

\* The finite double (-1)^neg * (hi * Limb + lo) * 2^e, whose mantissa has
\* exactly MantissaBits bits, or is 0 with e = 0.  Zero carries no sign:
\* nothing the script does tells -0 from +0.
Finite(neg, hi, lo, e) ==
    [kind |-> "fin", neg |-> neg, hi |-> hi, lo |-> lo, e |-> e]

Zero == Finite(FALSE, 0, 0, 0)

Infinity == [kind |-> "inf", neg |-> FALSE, hi |-> 0, lo |-> 0, e |-> 0]

NaNScore == [kind |-> "nan", neg |-> FALSE, hi |-> 0, lo |-> 0, e |-> 0]

IsZero(a) == a.kind = "fin" /\ a.hi = 0 /\ a.lo = 0

\* Number of bits of hi * Limb + lo
Width(hi, lo) == IF hi > 0 THEN LimbBits + BitLen(hi) ELSE BitLen(lo)

\* (hi, lo) * 2^s, when the product stays below 2^(2 * LimbBits)
ShiftLeft(hi, lo, s) ==
    IF s >= LimbBits
    THEN [hi |-> lo * Pow2(s - LimbBits), lo |-> 0]
    ELSE [hi |-> hi * Pow2(s) + lo \div Pow2(LimbBits - s),
          lo |-> (lo % Pow2(LimbBits - s)) * Pow2(s)]

\* The mantissa (mhi, mlo) of MantissaBits bits, one added when up is true;
\* a carry out of its top bit leaves the top bit alone, one exponent higher.
Increment(neg, mhi, mlo, e, up) ==
    IF ~up THEN Finite(neg, mhi, mlo, e)
    ELSE IF mlo + 1 < Limb THEN Finite(neg, mhi, mlo + 1, e)
    ELSE IF mhi + 1 < Pow2(MantissaBits - LimbBits)
    THEN Finite(neg, mhi + 1, 0, e)
    ELSE Finite(neg, Pow2(MantissaBits - LimbBits - 1), 0, e + 1)

\* (hi, lo) without its k low bits, rounded to nearest, ties to even
RoundBits(neg, hi, lo, e, sticky, k) ==
    LET rem  == lo % Pow2(k)
        half == Pow2(k - 1)
        mlo  == lo \div Pow2(k) + (hi % Pow2(k)) * Pow2(LimbBits - k)
    IN  Increment(neg, hi \div Pow2(k), mlo, e + k,
                  rem > half \/ (rem = half /\ (sticky \/ mlo % 2 = 1)))

\* The mantissa m shifted to MantissaBits bits is exact
Pack(neg, m, e) == Finite(neg, m.hi, m.lo, e)

\* (hi, lo), of len bits, brought to MantissaBits bits
Normalize(neg, hi, lo, e, sticky, len) ==
    IF len <= MantissaBits
    THEN Pack(neg, ShiftLeft(hi, lo, MantissaBits - len),
              e - (MantissaBits - len))
    ELSE RoundBits(neg, hi, lo, e, sticky, len - MantissaBits)

\* The double nearest to (hi * Limb + lo) * 2^e; sticky tells that the
\* exact value lies strictly above that (lower digits were dropped).
RoundPack(neg, hi, lo, e, sticky) ==
    IF hi = 0 /\ lo = 0 THEN Zero
    ELSE Normalize(neg, hi, lo, e, sticky, Width(hi, lo))

\* The double of an integer
FromInt(n) == RoundPack(n < 0, Abs(n) \div Limb, Abs(n) % Limb, 0, FALSE)

One == FromInt(1)

FNeg(a) == IF a.kind = "nan" \/ IsZero(a) THEN a ELSE [a EXCEPT !.neg = ~a.neg]

\* Math.abs
FAbs(a) == [a EXCEPT !.neg = FALSE]

\* |a| < |b| on finite doubles
MagLess(a, b) ==
    IF IsZero(b) THEN FALSE
    ELSE IF IsZero(a) THEN TRUE
    ELSE IF a.e # b.e THEN a.e < b.e
    ELSE IF a.hi # b.hi THEN a.hi < b.hi
    ELSE a.lo < b.lo

\* a < b as JavaScript compares numbers: false whenever NaN is involved.
JSLess(a, b) ==
    IF a.kind = "nan" \/ b.kind = "nan" THEN FALSE
    ELSE IF a.kind = "inf" THEN a.neg /\ ~(b.kind = "inf" /\ b.neg)
    ELSE IF b.kind = "inf" THEN ~b.neg
    ELSE IF a.neg /\ ~b.neg THEN TRUE
    ELSE IF ~a.neg /\ b.neg THEN FALSE
    ELSE IF a.neg THEN MagLess(b, a)
    ELSE MagLess(a, b)

\* a > 0
JSPositive(a) == JSLess(Zero, a)

\* A dropped non-zero digit (st) is kept in the last bit
Jam(hi, lo, st) ==
    [hi |-> hi, lo |-> IF st /\ lo % 2 = 0 THEN lo + 1 ELSE lo]

\* The mantissa m divided by 2^d
ShiftRightJam(m, d) ==
    IF d = 0 THEN m
    ELSE IF d < LimbBits
    THEN Jam(m.hi \div Pow2(d),
             m.lo \div Pow2(d) + (m.hi % Pow2(d)) * Pow2(LimbBits - d),
             m.lo % Pow2(d) # 0)
    ELSE IF d < MantissaBits + GuardBits
    THEN Jam((m.hi \div Pow2(d - LimbBits)) \div Limb,
             (m.hi \div Pow2(d - LimbBits)) % Limb,
             m.lo # 0 \/ m.hi % Pow2(d - LimbBits) # 0)
    ELSE Jam(0, 0, m.hi # 0 \/ m.lo # 0)

\* The mantissa of a with GuardBits zero bits appended
Widen(a) ==
    [hi |-> a.hi * Pow2(GuardBits) + a.lo \div Pow2(LimbBits - GuardBits),
     lo |-> (a.lo % Pow2(LimbBits - GuardBits)) * Pow2(GuardBits)]

\* A + s * B for aligned mantissas A >= B and s = 1 or -1; the low limb's
\* carry or borrow moves into the high limb.
AddAligned(neg, s, A, B, e) ==
    RoundPack(neg, A.hi + s * B.hi + (A.lo + s * B.lo) \div Limb,
              (A.lo + s * B.lo) % Limb, e, FALSE)

\* a + b for finite non-zero a, b with |a| >= |b|
AddOrdered(a, b) ==
    AddAligned(a.neg, IF a.neg = b.neg THEN 1 ELSE -1, Widen(a),
               ShiftRightJam(Widen(b), a.e - b.e), a.e - GuardBits)

\* a + b
FAdd(a, b) ==
    IF a.kind = "nan" \/ b.kind = "nan" THEN NaNScore
    ELSE IF a.kind = "inf"
    THEN (IF b.kind = "inf" /\ a.neg # b.neg THEN NaNScore ELSE a)
    ELSE IF b.kind = "inf" THEN b
    ELSE IF IsZero(b) THEN a
    ELSE IF IsZero(a) THEN b
    ELSE AddOrdered(IF MagLess(a, b) THEN b ELSE a,
                    IF MagLess(a, b) THEN a ELSE b)

\* a - b
FSub(a, b) == FAdd(a, FNeg(b))

\* The quotient bits m of a division that came out even
ExactQuotient(m) == [hi |-> m.hi, lo |-> m.lo, st |-> FALSE]

\* Long division, one quotient bit a step: r is the running remainder and q
\* the quotient so far, which is complete at MantissaBits + 1 bits.
RECURSIVE DivLoop(_, _, _, _, _, _)
DivLoop(rhi, rlo, qhi, qlo, bhi, blo) ==
    IF qhi >= Pow2(MantissaBits - LimbBits)
    THEN [hi |-> qhi, lo |-> qlo, st |-> rhi # 0 \/ rlo # 0]
    ELSE IF rhi = 0 /\ rlo = 0
    THEN ExactQuotient(ShiftLeft(qhi, qlo,
                                 MantissaBits + 1 - Width(qhi, qlo)))
    ELSE LET ge  == rhi > bhi \/ (rhi = bhi /\ rlo >= blo)
             dlo == IF ge THEN rlo - blo ELSE rlo
             shi == IF ge THEN (IF dlo < 0 THEN rhi - bhi - 1 ELSE rhi - bhi)
                    ELSE rhi
             slo == IF dlo < 0 THEN dlo + Limb ELSE dlo
             q2  == 2 * qlo + (IF ge THEN 1 ELSE 0)
         IN  DivLoop(2 * shi + (2 * slo) \div Limb, (2 * slo) % Limb,
                     2 * qhi + q2 \div Limb, q2 % Limb, bhi, blo)

\* The double nearest to the quotient q * 2^e
PackQuotient(neg, q, e) == RoundPack(neg, q.hi, q.lo, e, q.st)

\* a / b for finite non-zero a, b; small tells that a's mantissa is below
\* b's, when the division starts one bit further down.
Divide(a, b, small) ==
    PackQuotient(a.neg # b.neg,
                 DivLoop(IF small THEN 2 * a.hi + (2 * a.lo) \div Limb
                         ELSE a.hi,
                         IF small THEN (2 * a.lo) % Limb ELSE a.lo,
                         0, 0, b.hi, b.lo),
                 a.e - b.e - MantissaBits - (IF small THEN 1 ELSE 0))

\* a / b
FDiv(a, b) ==
    IF a.kind = "nan" \/ b.kind = "nan" THEN NaNScore
    ELSE IF a.kind = "inf"
    THEN (IF b.kind = "inf" THEN NaNScore
          ELSE [Infinity EXCEPT !.neg = (a.neg # b.neg)])
    ELSE IF b.kind = "inf" THEN Zero
    ELSE IF IsZero(b)
    THEN (IF IsZero(a) THEN NaNScore
          ELSE [Infinity EXCEPT !.neg = (a.neg # b.neg)])
    ELSE IF IsZero(a) THEN Zero
    ELSE IF b = One THEN a
    ELSE Divide(a, b, a.hi < b.hi \/ (a.hi = b.hi /\ a.lo < b.lo))

\* a * w for one of the integer weights w of the score
FMul(a, w) ==
    IF a.kind # "fin" THEN a
    ELSE RoundPack(a.neg, a.hi * w + (a.lo * w) \div Limb, (a.lo * w) % Limb,
                   a.e, FALSE)

\* The double of a parsed integer
Double(a) == IF a.nan THEN NaNScore ELSE FromInt(a.v)

\* The double 0.001
Epsilon == FDiv(One, FromInt(EpsilonInv))

\* x || 1
OrOne(a) == IF a.kind = "nan" \/ IsZero(a) THEN One ELSE a

----------------------------------------------------------------------------
(* The document the page is served *)

BaseRecord ==
    [Manufacturer |-> "A", Model |-> "X", ProductionYear |-> 2015,
     Category |-> "C1", LeatherInterior |-> TRUE, FuelType |-> "F1",
     EngineVolume |-> 2 * UnitsPerLitre, Mileage |-> 5,
     GearboxType |-> "G1", DriveWheels |-> "D1", Doors |-> 4,
     Wheel |-> "L", Airbags |-> 6, predicted_price |-> 1200000]

\* Differs from BaseRecord in Wheel only: no score term tells them apart.
\* Its price is negative and ends in 50 cents.
OtherWheelRecord ==
    [BaseRecord EXCEPT !.Wheel = "R", !.predicted_price = -1250050]

\* Differs from BaseRecord by one millilitre of Engine Volume (2.001 L).
NearEngineRecord ==
    [BaseRecord EXCEPT !.EngineVolume = 2 * UnitsPerLitre + 2,
                       !.predicted_price = 1250050]

\* Differs from BaseRecord in every field; zero Mileage and Airbags,
\* an Engine Volume below one litre, a price between -1 and 0.
FarRecord ==
    [Manufacturer |-> "B", Model |-> "Y", ProductionYear |-> 2016,
     Category |-> "C2", LeatherInterior |-> FALSE, FuelType |-> "F2",
     EngineVolume |-> UnitsPerLitre \div 2, Mileage |-> 0,
     GearboxType |-> "G2", DriveWheels |-> "D2", Doors |-> 2,
     Wheel |-> "R", Airbags |-> 0, predicted_price |-> -40]

Records == {BaseRecord, OtherWheelRecord, NearEngineRecord, FarRecord}

SeqsUpTo(S, n) == UNION {[1..k -> S] : k \in 0..n}

Datasets == SeqsUpTo(Records, MaxRows)

\* DATA.unique listing the codes of every record and of every choice a
\* user of the model makes.
CatalogueUnique ==
    [Manufacturer |-> <<"A", "B">>, Model |-> <<"X", "Y">>,
     ProductionYear |-> <<0, 2014, 2015, 2016>>,
     Category |-> <<"C1", "C2">>, FuelType |-> <<"F1", "F2">>,
     GearboxType |-> <<"G1", "G2">>, DriveWheels |-> <<"D1", "D2">>,
     Doors |-> <<2, 4>>, Wheel |-> <<"L", "R">>, Airbags |-> <<0, 4, 6>>]

\* DATA.unique naming few of the codes the rows hold, and no year at all.
NarrowUnique ==
    [Manufacturer |-> <<"Z">>, Model |-> <<"X">>, ProductionYear |-> <<>>,
     Category |-> <<"C1">>, FuelType |-> <<"F1">>, GearboxType |-> <<"G1">>,
     DriveWheels |-> <<"D1">>, Doors |-> <<2>>, Wheel |-> <<"L">>,
     Airbags |-> <<6>>]

\* data.json: rows, and unique as a field of its own (absent from a
\* document that is JSON but not the expected one).
Documents ==
    [rows : Datasets, unique : {CatalogueUnique, NarrowUnique, Undefined}]

----------------------------------------------------------------------------
(* The form *)

BlankForm ==
    [Manufacturer |-> "", Model |-> "", Production_Year |-> NoText,
     Category |-> "", Leather_Interior |-> FALSE, Fuel_Type |-> "",
     Engine_Volume |-> NoText, Mileage |-> NoText, Gearbox_Type |-> "",
     Drive_Wheels |-> "", Doors |-> NoText, Wheel |-> "",
     Airbags |-> NoText]

Range(s) == {s[i] : i \in 1..Len(s)}

\* The selects before populateSelect ran: nothing to choose from.
NoOptions ==
    [Manufacturer |-> {}, Model |-> {}, Production_Year |-> {},
     Category |-> {}, Fuel_Type |-> {}, Gearbox_Type |-> {},
     Drive_Wheels |-> {}, Doors |-> {}, Wheel |-> {}, Airbags |-> {}]

\* The ten populateSelect(id, u[...]) calls: the option values of each
\* select, "Select..." with the empty value aside.
OptionsOf(u) ==
    [Manufacturer |-> Range(u.Manufacturer), Model |-> Range(u.Model),
     Production_Year |-> Range(u.ProductionYear),
     Category |-> Range(u.Category), Fuel_Type |-> Range(u.FuelType),
     Gearbox_Type |-> Range(u.GearboxType),
     Drive_Wheels |-> Range(u.DriveWheels), Doors |-> Range(u.Doors),
     Wheel |-> Range(u.Wheel), Airbags |-> Range(u.Airbags)]

\* select.value = v picks the option whose value is v; with no such option
\* the select is left with no selection and reads back as empty.
SelectAssign(offered, v, empty) == IF v \in offered THEN v ELSE empty

\* The same for a number, which the assignment turns into text.
SelectAssignNumber(offered, n) ==
    IF n \in offered THEN ToString(n) ELSE NoText

\* The form after loadSampleData copied row r into the controls, the
\* selects offering opts.
SampleForm(opts, r) ==
    [Manufacturer |-> SelectAssign(opts.Manufacturer, r.Manufacturer, ""),
     Model |-> SelectAssign(opts.Model, r.Model, ""),
     Production_Year |->
         SelectAssignNumber(opts.Production_Year, r.ProductionYear),
     Category |-> SelectAssign(opts.Category, r.Category, ""),
     Leather_Interior |-> r.LeatherInterior,
     Fuel_Type |-> SelectAssign(opts.Fuel_Type, r.FuelType, ""),
     Engine_Volume |-> ToString(r.EngineVolume),
     Mileage |-> ToString(r.Mileage),
     Gearbox_Type |-> SelectAssign(opts.Gearbox_Type, r.GearboxType, ""),
     Drive_Wheels |-> SelectAssign(opts.Drive_Wheels, r.DriveWheels, ""),
     Doors |-> SelectAssignNumber(opts.Doors, r.Doors),
     Wheel |-> SelectAssign(opts.Wheel, r.Wheel, ""),
     Airbags |-> SelectAssignNumber(opts.Airbags, r.Airbags)]

\* Every control holding the value of record r.
FilledForm(r) ==
    [Manufacturer |-> r.Manufacturer, Model |-> r.Model,
     Production_Year |-> ToString(r.ProductionYear),
     Category |-> r.Category, Leather_Interior |-> r.LeatherInterior,
     Fuel_Type |-> r.FuelType, Engine_Volume |-> ToString(r.EngineVolume),
     Mileage |-> ToString(r.Mileage), Gearbox_Type |-> r.GearboxType,
     Drive_Wheels |-> r.DriveWheels, Doors |-> ToString(r.Doors),
     Wheel |-> r.Wheel, Airbags |-> ToString(r.Airbags)]

\* Only the three required controls filled, from record r.
RequiredOnlyForm(r) ==
    [BlankForm EXCEPT !.Manufacturer = r.Manufacturer, !.Model = r.Model,
                      !.Production_Year = ToString(r.ProductionYear)]

\* The values a user changes single controls to.
CodeChoices == [Manufacturer |-> {"", "A", "B"}, Model |-> {""},
                Category |-> {"C1", "C2"}, Wheel |-> {"L", "R"}]

NumberChoices ==
    [Production_Year |-> {NoText, Text(0), Text(2014), Text(2016)},
     Engine_Volume |-> {NoText, Text(UnitsPerLitre \div 2 + 2),
                        Text(2 * UnitsPerLitre + 1), Text(3 * UnitsPerLitre)},
     Mileage |-> {NoText, Text(8), Text(-5)},
     Doors |-> {NoText, Text(2)},
     Airbags |-> {NoText, Text(0), Text(4)}]

EditedRecords == {BaseRecord, FarRecord}

\* What a user can type while the selects offer nothing.
TypedForms ==
    {[BlankForm EXCEPT !.Mileage = Text(8)],
     [BlankForm EXCEPT !.Engine_Volume = Text(2 * UnitsPerLitre + 1),
                       !.Leather_Interior = TRUE]}

\* BaseRecord's values with another Wheel and an Engine Volume half way
\* between BaseRecord's and NearEngineRecord's.
BetweenEnginesForm ==
    [FilledForm(BaseRecord) EXCEPT
        !.Wheel = "R", !.Engine_Volume = Text(2 * UnitsPerLitre + 1)]

\* The forms a user can have entered: blank, typed fields only, a record's
\* values, a record's required fields only, or a record's values with one
\* control changed.
UserForms ==
    {BlankForm, BetweenEnginesForm}
    \cup TypedForms
    \cup {RequiredOnlyForm(r) : r \in Records}
    \cup {FilledForm(r) : r \in Records}
    \cup UNION {{[FilledForm(r) EXCEPT ![f] = v] : v \in CodeChoices[f]}
                : r \in EditedRecords, f \in DOMAIN CodeChoices}
    \cup UNION {{[FilledForm(r) EXCEPT ![f] = v] : v \in NumberChoices[f]}
                : r \in EditedRecords, f \in DOMAIN NumberChoices}
    \cup {[FilledForm(r) EXCEPT !.Leather_Interior = ~r.LeatherInterior]
          : r \in EditedRecords}

\* Every select of form f shows "Select..." or one of the options opts.
Offered(f, opts) ==
    /\ f.Manufacturer \in opts.Manufacturer \cup {""}
    /\ f.Model \in opts.Model \cup {""}
    /\ f.Production_Year.blank \/ f.Production_Year.n \in opts.Production_Year
    /\ f.Category \in opts.Category \cup {""}
    /\ f.Fuel_Type \in opts.Fuel_Type \cup {""}
    /\ f.Gearbox_Type \in opts.Gearbox_Type \cup {""}
    /\ f.Drive_Wheels \in opts.Drive_Wheels \cup {""}
    /\ f.Doors.blank \/ f.Doors.n \in opts.Doors
    /\ f.Wheel \in opts.Wheel \cup {""}
    /\ f.Airbags.blank \/ f.Airbags.n \in opts.Airbags

----------------------------------------------------------------------------
(* onPredict: building and validating the query *)

\* const q = {...}: Engine Volume and Mileage fall back to 0, the other
\* parsed numbers stay NaN when their control is empty.
BuildQuery(f) ==
    [Manufacturer |-> f.Manufacturer,
     Model |-> f.Model,
     Production_Year |-> ParseNumber(f.Production_Year),
     Category |-> f.Category,
     LeatherInterior |-> f.Leather_Interior,
     FuelType |-> f.Fuel_Type,
     EngineVolume |-> OrZero(ParseNumber(f.Engine_Volume)),
     Mileage |-> OrZero(ParseNumber(f.Mileage)),
     GearboxType |-> f.Gearbox_Type,
     DriveWheels |-> f.Drive_Wheels,
     Doors |-> ParseNumber(f.Doors),
     Wheel |-> f.Wheel,
     Airbags |-> ParseNumber(f.Airbags)]

\* Variant of Validated that forgets the Production Year check.
Validated_noYear(q) == q.Manufacturer # "" /\ q.Model # ""

\* !(!q.Manufacturer || !q.Model || !q.Production_Year)
Validated(q) ==
    /\ q.Manufacturer # ""
    /\ q.Model # ""
    /\ ~Falsy(q.Production_Year)

----------------------------------------------------------------------------
(* The rows and queries of the model.  What onPredict computes from a row   *)
(* and a query alone is computed once for these and looked up afterwards.   *)

\* The forms the page can hold: what a user enters and what loadSampleData
\* leaves behind.
ModelForms ==
    UserForms
    \cup {SampleForm(OptionsOf(u), r)
          : u \in {CatalogueUnique, NarrowUnique}, r \in Records}

Queries == {BuildQuery(f) : f \in ModelForms}

\* The double a decimal text or JSON number of n / UnitsPerLitre denotes
Litres(n) == FDiv(FromInt(n), FromInt(UnitsPerLitre))

----------------------------------------------------------------------------
(* onPredict: the exact-match pass *)

\* Math.abs(r['Engine Volume'] - q['Engine Volume']) < 0.001
EngineWithinEpsilon(r, q) ==
    JSLess(FAbs(FSub(Litres(r.EngineVolume), Litres(q.EngineVolume))),
           Epsilon)

\* The predicate handed to rows.find
ExactPredicate(r, q) ==
    /\ r.Manufacturer = q.Manufacturer
    /\ r.Model = q.Model
    /\ StrictEq(Num(r.ProductionYear), q.Production_Year)
    /\ r.Category = q.Category
    /\ r.LeatherInterior = q.LeatherInterior
    /\ r.FuelType = q.FuelType
    /\ r.GearboxType = q.GearboxType
    /\ r.DriveWheels = q.DriveWheels
    /\ StrictEq(Num(r.Doors), q.Doors)
    /\ r.Wheel = q.Wheel
    /\ StrictEq(Num(r.Airbags), q.Airbags)
    /\ EngineWithinEpsilon(r, q)
    /\ r.Mileage = q.Mileage

\* rows.find(...): the index of the first row satisfying the predicate,
\* 0 when there is none (undefined).
First(hits) ==
    IF hits = {} THEN 0 ELSE CHOOSE i \in hits : \A j \in hits : i <= j

Find(rows, q) == First({i \in 1..Len(rows) : ExactPredicate(rows[i], q)})

----------------------------------------------------------------------------
(* onPredict: the nearest-match pass *)

\* The seven "if (r.X !== q.X) score += w" lines
CategoricalPenalty(r, q) ==
      (IF r.Manufacturer # q.Manufacturer THEN W_Manufacturer ELSE 0)
    + (IF r.Model # q.Model THEN W_Model ELSE 0)
    + (IF r.Category # q.Category THEN W_Category ELSE 0)
    + (IF r.FuelType # q.FuelType THEN W_FuelType ELSE 0)
    + (IF r.GearboxType # q.GearboxType THEN W_GearboxType ELSE 0)
    + (IF r.DriveWheels # q.DriveWheels THEN W_DriveWheels ELSE 0)
    + (IF r.LeatherInterior # q.LeatherInterior THEN W_LeatherInterior ELSE 0)

\* Math.abs(rv - qv) / d
DiffOver(rv, qv, d) == FDiv(FAbs(FSub(rv, qv)), d)

\* Math.abs(rv - qv) / (qv || 1)
RelativeDiff(rv, qv) == DiffOver(rv, qv, OrOne(qv))

\* Math.abs(rv - qv) / max(qv, 1)
RelativeDiff_max(rv, qv) ==
    DiffOver(rv, qv, IF JSLess(qv, One) THEN One ELSE qv)

\* Variant of engineDiff dividing by max(q, 1) instead of (q || 1).
engineDiff_max(r, q) ==
    RelativeDiff_max(Litres(r.EngineVolume), Litres(q.EngineVolume))

\* Math.abs(r['Engine Volume'] - q['Engine Volume']) / (q['Engine Volume'] || 1)
engineDiff(r, q) ==
    RelativeDiff(Litres(r.EngineVolume), Litres(q.EngineVolume))

\* Math.abs(r.Mileage - q.Mileage) / (q.Mileage || 1)
mileageDiff(r, q) == RelativeDiff(FromInt(r.Mileage), FromInt(q.Mileage))

\* Math.abs(r['Production Year'] - q['Production_Year']) / 10
yearDiff(r, q) ==
    DiffOver(FromInt(r.ProductionYear), Double(q.Production_Year),
             FromInt(YearDenominator))

\* Math.abs(r.Airbags - q.Airbags) / (q.Airbags || 1)
airbagsDiff(r, q) == RelativeDiff(FromInt(r.Airbags), Double(q.Airbags))

\* The score of row r against query q as the loop body computes it: the
\* penalties, then += of the four weighted terms added left to right.  A NaN
\* operand (Airbags left unselected) makes the whole sum NaN.
Score(r, q) ==
    FAdd(FromInt(CategoricalPenalty(r, q)),
         FAdd(FAdd(FAdd(FMul(engineDiff(r, q), engineVolWeight),
                        FMul(mileageDiff(r, q), mileageWeight)),
                   FMul(yearDiff(r, q), yearWeight)),
              FMul(airbagsDiff(r, q), airbagsWeight)))

ScoreTable == [r \in Records, q \in Queries |-> Score(r, q)]

\* The score of row r, read from the table where the table holds it
ScoreOf(r, q) ==
    IF <<r, q>> \in DOMAIN ScoreTable THEN ScoreTable[r, q] ELSE Score(r, q)

\* Variant of Improves written with <= : a later row of equal score wins.
Improves_orEqual(score, bestScore) ==
    /\ score.kind # "nan"
    /\ bestScore.kind # "nan"
    /\ ~JSLess(bestScore, score)

\* if (score < bestScore)
Improves(score, bestScore) == JSLess(score, bestScore)

\* if (score < bestScore) { bestScore = score; best = r; } for row i
Keep(acc, i, score) ==
    IF Improves(score, acc.bestScore)
    THEN [best |-> i, bestScore |-> score]
    ELSE acc

\* for (const r of rows) {...} from row i on, with the best so far
RECURSIVE NearestLoop(_, _, _, _)
NearestLoop(rows, q, i, acc) ==
    IF i > Len(rows) THEN acc
    ELSE NearestLoop(rows, q, i + 1, Keep(acc, i, ScoreOf(rows[i], q)))

\* let best = null; bestScore = Infinity; the loop; match = best
NearestPass(rows, q) ==
    NearestLoop(rows, q, 1, [best |-> 0, bestScore |-> Infinity])

----------------------------------------------------------------------------
(* onPredict: the locals at the end of the two passes, and the rendering *)

\* A name with no binding in scope: reading it throws ReferenceError.
Undeclared == [kind |-> "undeclared", neg |-> FALSE, hi |-> 0, lo |-> 0,
               e |-> 0]

\* match, the pass that produced it, bestScore and the number of rows the
\* two scans visited.  The labeled script declares bestScore = 0 ahead of
\* rows.find; the simple one declares it inside the if (!match) block only,
\* so an exact hit leaves no bestScore at all.
LocalsOf(v, found, near, len) ==
    IF found # 0
    THEN [pass |-> "exact", match |-> found,
          bestScore |-> IF v = "labeled" THEN Zero ELSE Undeclared,
          scanned |-> found]
    ELSE [pass |-> "nearest", match |-> near.best,
          bestScore |-> near.bestScore, scanned |-> 2 * len]

MatchLocals(v, rows, q) ==
    LocalsOf(v, Find(rows, q), NearestPass(rows, q), Len(rows))

\* The value the read of bestScore after the block yields: in the simple
\* script the block's binding is out of scope there.
BestScoreAfterBlock(v, loc) ==
    IF v = "labeled" THEN loc.bestScore ELSE Undeclared

\* Intl.NumberFormat('en-US', currency USD, 0 fraction digits) on cents:
\* the magnitude rounded half away from zero, behind the sign of the number.
FormatUSD(cents) ==
    [kind |-> "usd", minus |-> cents < 0, v |-> (Abs(cents) + 50) \div 100]

InitialPrice == [kind |-> "initial", minus |-> FALSE, v |-> 0]

ErrorPrice == [kind |-> "Error loading data", minus |-> FALSE, v |-> 0]

\* Variant of NoMatchPrice reporting the empty result as the load error.
NoMatchPrice_asError == ErrorPrice

NoMatchPrice == [kind |-> "No match found", minus |-> FALSE, v |-> 0]

\* bestScore > 0 ? nearest : exact
ExplainText(bestScore) ==
    IF JSPositive(bestScore) THEN "Nearest match from dataset (similar car)"
    ELSE "Exact match found in dataset"

NoDetails == [shown |-> FALSE]

\* The five fields of the match listed under "Match details"
DetailsOf(r) ==
    [shown |-> TRUE, Manufacturer |-> r.Manufacturer, Model |-> r.Model,
     Year |-> r.ProductionYear, Engine |-> r.EngineVolume,
     Mileage |-> r.Mileage]

ValidationMessage ==
    "Please fill in at least Manufacturer, Model, and Production Year"

GeneratedMessage == "Price prediction generated!"

SampleMessage ==
    "Sample car data loaded! Click \"Predict Price\" to see the result."

NoLocals == [pass |-> "none", match |-> 0, bestScore |-> Undeclared,
             scanned |-> 0]

Event(op, end, locals) == [op |-> op, end |-> end, locals |-> locals]

----------------------------------------------------------------------------
(* The page *)

Init ==
    /\ variant \in {"simple", "labeled"}
    /\ file \in Documents
    /\ pc = "fetch"
    /\ loads = 0
    /\ DATA = Null
    /\ options = NoOptions
    /\ registered = FALSE
    /\ form = BlankForm
    /\ price = InitialPrice
    /\ explain = ""
    /\ details = NoDetails
    /\ toast = ""
    /\ last = Event("none", "ok", NoLocals)

\* populateSelect replaces the options of the ten selects, which leaves each
\* on its first option, "Select..." with the empty value.
PopulateControls(f) ==
    [f EXCEPT !.Manufacturer = "", !.Model = "", !.Production_Year = NoText,
              !.Category = "", !.Fuel_Type = "", !.Gearbox_Type = "",
              !.Drive_Wheels = "", !.Doors = NoText, !.Wheel = "",
              !.Airbags = NoText]

\* loadData() was called at the end of the script and is suspended at one
\* of its awaits: neither populateControls nor the catch block has run.
Pending == pc \in {"fetch", "labels"}

\* The labeled script resumes with the body of data.json parsed, assigns
\* DATA and suspends again for the body of label_mappings.json.
AssignData ==
    /\ variant = "labeled"
    /\ pc = "fetch"
    /\ DATA' = file
    /\ loads' = loads + 1
    /\ pc' = "labels"
    /\ last' = Event("loadData", "await", NoLocals)
    /\ UNCHANGED <<variant, file, options, registered, form, price, explain,
                   details, toast>>

\* loadData running to the end of its try block: the simple script from the
\* parsed body of data.json on, the labeled one from the parsed body of
\* label_mappings.json on.
LoadDataOk ==
    /\ \/ /\ variant = "simple"
          /\ pc = "fetch"
          /\ DATA' = file
          /\ loads' = loads + 1
       \/ /\ variant = "labeled"
          /\ pc = "labels"
          /\ UNCHANGED <<DATA, loads>>
    /\ DATA'.unique # Undefined
    /\ pc' = "done"
    /\ options' = OptionsOf(DATA'.unique)
    /\ registered' = TRUE
    /\ form' = PopulateControls(form)
    /\ last' = Event("loadData", "ok", NoLocals)
    /\ UNCHANGED <<variant, file, price, explain, details, toast>>

\* Variant of LoadDataFail that still adds the click listeners, as if
\* populateControls ran ahead of the fetch.
LoadDataFail_registers ==
    /\ \/ /\ pc = "fetch"
          /\ UNCHANGED <<DATA, loads>>
       \/ /\ variant = "simple"
          /\ pc = "fetch"
          /\ file.unique = Undefined
          /\ DATA' = file
          /\ loads' = loads + 1
       \/ /\ pc = "labels"
          /\ UNCHANGED <<DATA, loads>>
    /\ pc' = "caught"
    /\ registered' = TRUE
    /\ price' = ErrorPrice
    /\ last' = Event("loadData", "threw", NoLocals)
    /\ UNCHANGED <<variant, file, options, form, explain, details, toast>>

\* loadData ending in its catch block.  A rejected fetch or a body of
\* data.json that is not JSON leaves DATA null.  A document without unique
\* throws TypeError where STATS reads DATA.unique.Manufacturer, DATA being
\* assigned by then.  In the labeled script a body of label_mappings.json
\* that is not JSON throws after DATA was assigned, too.
LoadDataFail ==
    /\ \/ /\ pc = "fetch"
          /\ UNCHANGED <<DATA, loads>>
       \/ /\ variant = "simple"
          /\ pc = "fetch"
          /\ file.unique = Undefined
          /\ DATA' = file
          /\ loads' = loads + 1
       \/ /\ pc = "labels"
          /\ UNCHANGED <<DATA, loads>>
    /\ pc' = "caught"
    /\ registered' = FALSE
    /\ price' = ErrorPrice
    /\ last' = Event("loadData", "threw", NoLocals)
    /\ UNCHANGED <<variant, file, options, form, explain, details, toast>>

\* The user edits the controls; a select takes one of its options only.
\* All the edits made between two clicks are one step.
UserInput ==
    /\ last.op # "input"
    /\ \E f \in UserForms : Offered(f, options) /\ form' = f
    /\ last' = Event("input", "ok", NoLocals)
    /\ UNCHANGED <<variant, file, pc, loads, DATA, options, registered, price,
                   explain, details, toast>>

\* Click on "Load Sample".
LoadSampleData ==
    /\ registered
    /\ IF DATA = Null \/ DATA.rows = <<>>
       THEN \* DATA.rows on null, or sample.Manufacturer on undefined
            /\ last' = Event("loadSampleData", "threw", NoLocals)
            /\ UNCHANGED <<form, toast>>
       ELSE \E i \in 1..Len(DATA.rows) :
            /\ form' = SampleForm(options, DATA.rows[i])
            /\ toast' = SampleMessage
            /\ last' = Event("loadSampleData", "ok",
                             [NoLocals EXCEPT !.match = i])
    /\ UNCHANGED <<variant, file, pc, loads, DATA, options, registered, price,
                   explain, details>>

\* onPredict from the end of its two passes on, loc being the locals they
\* leave: the match is rendered, or the lack of one.
Render(loc) ==
    IF loc.match = 0
    THEN /\ price' = NoMatchPrice
         /\ explain' = "Try adjusting your search criteria"
         /\ last' = Event("onPredict", "nomatch", loc)
         /\ UNCHANGED <<details, toast>>
    ELSE IF BestScoreAfterBlock(variant, loc) = Undeclared
    THEN \* #price is written, then bestScore is read
         /\ price' = FormatUSD(DATA.rows[loc.match].predicted_price)
         /\ last' = Event("onPredict", "threw", loc)
         /\ UNCHANGED <<explain, details, toast>>
    ELSE /\ price' = FormatUSD(DATA.rows[loc.match].predicted_price)
         /\ explain' = ExplainText(BestScoreAfterBlock(variant, loc))
         /\ details' = DetailsOf(DATA.rows[loc.match])
         /\ toast' = GeneratedMessage
         /\ last' = Event("onPredict", "rendered", loc)

\* Click on "Predict".
OnPredict ==
    /\ registered
    /\ IF ~Validated(BuildQuery(form))
       THEN /\ toast' = ValidationMessage
            /\ last' = Event("onPredict", "refused", NoLocals)
            /\ UNCHANGED <<price, explain, details>>
       ELSE IF DATA = Null
       THEN \* DATA.rows on null
            /\ last' = Event("onPredict", "threw", NoLocals)
            /\ UNCHANGED <<price, explain, details, toast>>
       ELSE Render(MatchLocals(variant, DATA.rows, BuildQuery(form)))
    /\ UNCHANGED <<variant, file, pc, loads, DATA, options, registered, form>>

\* Click on "Predict" while no listener is attached (loadData is suspended
\* or ended in its catch block): the browser dispatches the event to nobody.
PredictClickIgnored ==
    /\ ~registered
    /\ last' = Event("click", "ignored", NoLocals)
    /\ UNCHANGED <<variant, file, pc, loads, DATA, options, registered, form,
                   price, explain, details, toast>>

\* Click on "Reset": location.reload() starts the page over.
Reset ==
    /\ registered
    /\ pc' = "fetch"
    /\ loads' = 0
    /\ DATA' = Null
    /\ options' = NoOptions
    /\ registered' = FALSE
    /\ form' = BlankForm
    /\ price' = InitialPrice
    /\ explain' = ""
    /\ details' = NoDetails
    /\ toast' = ""
    /\ last' = Event("none", "ok", NoLocals)
    /\ UNCHANGED <<variant, file>>

Next ==
    \/ AssignData
    \/ LoadDataOk
    \/ LoadDataFail
    \/ UserInput
    \/ LoadSampleData
    \/ OnPredict
    \/ PredictClickIgnored
    \/ Reset

Spec == Init /\ [][Next]_vars

----------------------------------------------------------------------------
(* Vocabulary of the properties *)

\* The handler that ran last was onPredict; form is the form it read.
Predicted == last.op = "onPredict"

Loaded == DATA # Null

\* The query of the claims: required fields present in the form.
RequiredFieldsGiven ==
    /\ form.Manufacturer # ""
    /\ form.Model # ""
    /\ ~form.Production_Year.blank
    /\ form.Production_Year.n # 0

\* A validated query met a loaded dataset.
Matched == Predicted /\ Loaded /\ RequiredFieldsGiven

Rows == IF Loaded THEN DATA.rows ELSE <<>>

Query == BuildQuery(form)

Locals == last.locals

Max(a, b) == IF a > b THEN a ELSE b

\* Two scores equal up to the rounding of the operations that led to them:
\* the same value, or finite values whose difference lies more than half a
\* mantissa below them.
Close(a, b) ==
    IF a.kind # "fin" \/ b.kind # "fin"
    THEN a.kind = b.kind /\ a.neg = b.neg
    ELSE LET d == FSub(a, b)
         IN  \/ IsZero(d)
             \/ /\ ~IsZero(a)
                /\ ~IsZero(b)
                /\ d.e + MantissaBits \div 2 <= Max(a.e, b.e)

\* The form holds exactly the values of row i of the dataset.
FormIsRow(i) == form = FilledForm(Rows[i])

----------------------------------------------------------------------------
(* C1: Exactness.  For every row R of the dataset, onPredict on the form     *)
(* holding R's own values ends with a rendered result flagged exact, with   *)
(* score 0, whose record satisfies the exact-match predicate.               *)
C1_Exactness ==
    \A i \in 1..Len(Rows) :
        (Predicted /\ Loaded /\ FormIsRow(i)) =>
            /\ last.end = "rendered"
            /\ explain = "Exact match found in dataset"
            /\ Locals.pass = "exact"
            /\ Locals.bestScore = Zero
            /\ Locals.match \in 1..Len(Rows)
            /\ ExactPredicate(Rows[Locals.match], Query)

\* The same statement for the labeled variant alone, where it holds.
C1_ExactnessLabeled == variant = "labeled" => C1_Exactness

\* Row 2 was queried and row 1, another record one millilitre of Engine
\* Volume away, came back as the exact match.
C1_Witness ==
    /\ variant = "labeled"
    /\ Predicted /\ Loaded /\ Len(Rows) = 2
    /\ FormIsRow(2) /\ Locals.match = 1
    /\ Rows[1].EngineVolume # Rows[2].EngineVolume

----------------------------------------------------------------------------
(* C2: Nearest match is the global minimum.  For every validated query and  *)
(* non-empty dataset without an exact match, the nearest-match pass returns *)
(* a record whose score no record undercuts, together with that score.      *)
C2_GlobalMinimum ==
    (Matched /\ Rows # <<>> /\ Find(Rows, Query) = 0) =>
        /\ Locals.pass = "nearest"
        /\ Locals.match \in 1..Len(Rows)
        /\ \A j \in 1..Len(Rows) :
               ~JSLess(ScoreOf(Rows[j], Query),
                       ScoreOf(Rows[Locals.match], Query))
        /\ Locals.bestScore = ScoreOf(Rows[Locals.match], Query)

\* The same statement for queries whose Airbags control is selected.
C2_GlobalMinimumAirbagsGiven == ~form.Airbags.blank => C2_GlobalMinimum

C2_Witness ==
    /\ Matched /\ Len(Rows) = 2 /\ Locals.pass = "nearest"
    /\ Locals.match = 2
    /\ JSLess(ScoreOf(Rows[2], Query), ScoreOf(Rows[1], Query))

----------------------------------------------------------------------------
(* C3: Tie-break by scan order.  When rows share the score of the record    *)
(* the nearest-match pass returns, the returned one has the smallest index. *)
ScoresTie(a, b) ==
    a.kind = "fin" /\ b.kind = "fin" /\ ~JSLess(a, b) /\ ~JSLess(b, a)

C3_FirstOfTies ==
    (Predicted /\ Loaded /\ Locals.pass = "nearest" /\ Locals.match # 0) =>
        \A j \in 1..Len(Rows) :
            ScoresTie(ScoreOf(Rows[j], Query),
                      ScoreOf(Rows[Locals.match], Query))
                => Locals.match <= j

C3_Witness ==
    /\ Predicted /\ Loaded /\ Locals.pass = "nearest"
    /\ Len(Rows) = 2 /\ Locals.match = 1
    /\ Rows[1] # Rows[2]
    /\ ScoresTie(ScoreOf(Rows[1], Query), ScoreOf(Rows[2], Query))

----------------------------------------------------------------------------
(* C4: Score formula.                                                       *)
Mismatch(a, b, w) == IF a # b THEN w ELSE 0

PenaltyOfClaim(r, q) ==
      Mismatch(r.Manufacturer, q.Manufacturer, 5)
    + Mismatch(r.Model, q.Model, 5)
    + Mismatch(r.Category, q.Category, 3)
    + Mismatch(r.FuelType, q.FuelType, 3)
    + Mismatch(r.GearboxType, q.GearboxType, 2)
    + Mismatch(r.DriveWheels, q.DriveWheels, 2)
    + Mismatch(r.LeatherInterior, q.LeatherInterior, 1)

\* max(x, 1)
MaxOne(x) == IF JSLess(x, One) THEN One ELSE x

\* w * |a - b| / d, a numeric term in the order the claim writes it
TermOfClaim(w, a, b, d) == FDiv(FMul(FAbs(FSub(a, b)), w), d)

\* penalty + 2|dE|/dE + |dM|/dM + 3|dY|/10 + |dA|/dA summed in that order,
\* for given denominators dE, dM and dA.
WeightedSum(r, q, dE, dM, dA) ==
    FAdd(FAdd(FAdd(FAdd(FromInt(PenaltyOfClaim(r, q)),
                        TermOfClaim(2, Litres(r.EngineVolume),
                                    Litres(q.EngineVolume), dE)),
                   TermOfClaim(1, FromInt(r.Mileage), FromInt(q.Mileage),
                               dM)),
              TermOfClaim(3, FromInt(r.ProductionYear),
                          Double(q.Production_Year), FromInt(10))),
         TermOfClaim(1, FromInt(r.Airbags), Double(q.Airbags), dA))

\* The claim's formula: each numeric term divided by max(query value, 1).
ScoreOfClaim(r, q) ==
    WeightedSum(r, q, MaxOne(Litres(q.EngineVolume)),
                MaxOne(FromInt(q.Mileage)), MaxOne(Double(q.Airbags)))

\* The formula with the code's denominators: the query value itself unless
\* it is 0 or NaN, and then 1.  Unselected Airbags make the sum NaN.
ScoreAmended(r, q) ==
    WeightedSum(r, q, OrOne(Litres(q.EngineVolume)),
                OrOne(FromInt(q.Mileage)), OrOne(Double(q.Airbags)))

ClaimTable == [r \in Records, q \in Queries |-> ScoreOfClaim(r, q)]

AmendedTable == [r \in Records, q \in Queries |-> ScoreAmended(r, q)]

ClaimOf(r, q) ==
    IF <<r, q>> \in DOMAIN ClaimTable THEN ClaimTable[r, q] ELSE ScoreOfClaim(r, q)

AmendedOf(r, q) ==
    IF <<r, q>> \in DOMAIN AmendedTable THEN AmendedTable[r, q] ELSE ScoreAmended(r, q)

\* The form holds row i's values except for a Production Year one later.
OneYearOff(i) ==
    form = [FilledForm(Rows[i]) EXCEPT
               !.Production_Year = Text(Rows[i].ProductionYear + 1)]

\* A single-row dataset queried one Production Year off scores 0.3 up to
\* rounding (0.1 * 3 is 0.30000000000000004) and the row comes back from
\* the nearest-match pass, not the exact pass.
YearScenario ==
    (Matched /\ Len(Rows) = 1 /\ OneYearOff(1)) =>
        /\ Locals.pass = "nearest"
        /\ Locals.match = 1
        /\ Close(Locals.bestScore, FDiv(FromInt(3), FromInt(10)))
        /\ variant = "labeled" =>
               explain = "Nearest match from dataset (similar car)"

\* C4 as claimed, on queries whose Airbags control is selected: every row's
\* score, and the score returned, equal (up to rounding) the formula with
\* max(query, 1) denominators.
C4_ScoreFormula ==
    (Matched /\ Locals.pass = "nearest" /\ ~form.Airbags.blank) =>
        /\ \A j \in 1..Len(Rows) :
               Close(ScoreOf(Rows[j], Query), ClaimOf(Rows[j], Query))
        /\ Locals.match # 0 =>
               Close(Locals.bestScore, ClaimOf(Rows[Locals.match], Query))
        /\ YearScenario

\* C4 amended: every row's score, and the score returned, equal (up to
\* rounding) the sum of the categorical penalties plus
\* 2|dEngine|/(qEngine || 1) + |dMileage|/(qMileage || 1) + 3|dYear|/10 +
\* |dAirbags|/(qAirbags || 1), NaN when Airbags is unselected; one year off
\* a single row scores 0.3 up to rounding.
C4_ScoreFormulaAmended ==
    (Matched /\ Locals.pass = "nearest") =>
        /\ \A j \in 1..Len(Rows) :
               Close(ScoreOf(Rows[j], Query), AmendedOf(Rows[j], Query))
        /\ Locals.match # 0 =>
               Close(Locals.bestScore, AmendedOf(Rows[Locals.match], Query))
        /\ YearScenario

\* A query below one litre has been scored against a row of another volume.
C4_Witness ==
    /\ Matched /\ Locals.pass = "nearest" /\ Locals.match # 0
    /\ Query.EngineVolume # 0
    /\ Query.EngineVolume < UnitsPerLitre
    /\ Rows[Locals.match].EngineVolume # Query.EngineVolume

\* The one-year-off query has been scored against a single row.
C4_YearWitness == Matched /\ Len(Rows) = 1 /\ OneYearOff(1)

----------------------------------------------------------------------------
(* C5: The match never throws.  For every validated query and loaded        *)
(* dataset onPredict ends with a rendered result or with 'No match found'.  *)
C5_NeverThrows == Matched => last.end \in {"rendered", "nomatch"}

\* The same statement for the labeled variant alone, where it holds.
C5_NeverThrowsLabeled == variant = "labeled" => C5_NeverThrows

C5_Witness == variant = "labeled" /\ Matched /\ last.end = "rendered"

----------------------------------------------------------------------------
(* C6: Empty dataset.  A validated query against zero rows yields no record *)
(* without throwing, and the page reports 'No match found', not an error.   *)
C6_EmptyDataset ==
    (Matched /\ Rows = <<>>) =>
        /\ last.end = "nomatch"
        /\ Locals.match = 0
        /\ price.kind = "No match found"
        /\ explain = "Try adjusting your search criteria"

C6_Witness == Matched /\ Rows = <<>> /\ variant = "simple"

----------------------------------------------------------------------------
(* C7: Validation refusal.  When Manufacturer or Model is empty or the      *)
(* Production Year is missing or zero, onPredict shows the message and      *)
(* returns: no row is scanned and price, explanation and details stay.      *)
C7_ValidationRefusal ==
    [][(last'.op = "onPredict" /\ ~RequiredFieldsGiven') =>
          /\ last'.end = "refused"
          /\ last'.locals.scanned = 0
          /\ last'.locals.pass = "none"
          /\ toast' = ValidationMessage
          /\ price' = price
          /\ explain' = explain
          /\ details' = details]_vars

\* A refusal came after a price was on display, for a zero Production Year.
C7_Witness ==
    /\ Predicted /\ last.end = "refused" /\ price.kind = "usd"
    /\ Loaded /\ Rows # <<>>
    /\ form.Production_Year = Text(0)

----------------------------------------------------------------------------
(* C8: The exactness flag follows the pass.  A rendered result says exact   *)
(* only when the exact-match pass found the record; whatever the nearest-   *)
(* match pass returns is reported as nearest, a score of 0 included.        *)
C8_FlagFollowsPass ==
    (Predicted /\ last.end = "rendered") =>
        /\ explain = "Exact match found in dataset" =>
               /\ Locals.pass = "exact"
               /\ ExactPredicate(Rows[Locals.match], Query)
        /\ Locals.pass = "nearest" =>
               explain = "Nearest match from dataset (similar car)"

\* What the code does instead: the flag follows the sign of bestScore.
C8_FlagFollowsScore ==
    (Predicted /\ last.end = "rendered") =>
        (explain = "Exact match found in dataset"
            <=> ~JSPositive(Locals.bestScore))

C8_Witness ==
    /\ Predicted /\ last.end = "rendered" /\ Locals.pass = "nearest"
    /\ explain = "Exact match found in dataset"

----------------------------------------------------------------------------
(* C9: Optional-field defaults.  With only Manufacturer, Model and          *)
(* Production Year entered the query has 0 / false / empty everywhere else, *)
(* every row's score is a number and a non-empty dataset yields a record.   *)
C9_OptionalDefaults ==
    \A r \in Records :
        (Predicted /\ Loaded /\ form = RequiredOnlyForm(r)) =>
            /\ Query.EngineVolume = 0
            /\ Query.Mileage = 0
            /\ Query.Doors = Num(0)
            /\ Query.Airbags = Num(0)
            /\ Query.LeatherInterior = FALSE
            /\ Query.Category = "" /\ Query.FuelType = ""
            /\ Query.GearboxType = "" /\ Query.DriveWheels = ""
            /\ Query.Wheel = ""
            /\ \A j \in 1..Len(Rows) : ScoreOf(Rows[j], Query).kind = "fin"
            /\ Rows # <<>> => Locals.match # 0

\* What the code does instead: no row is returned and 'No match found' shows.
C9_Witness ==
    /\ Predicted /\ Loaded /\ Rows # <<>>
    /\ \E r \in Records : form = RequiredOnlyForm(r)
    /\ last.end = "nomatch"

----------------------------------------------------------------------------
(* C10: Load before query.  DATA is assigned at most once per page, and a   *)
(* click handler exists, and so runs, only after that one assignment and    *)
(* the end of loadData's try block, never after its catch block.            *)
Handled == last.op \in {"onPredict", "loadSampleData"}

C10_LoadBeforeQuery ==
    /\ loads <= 1
    /\ registered =>
           (DATA # Null /\ loads = 1 /\ pc = "done" /\ price # ErrorPrice)
    /\ Handled => (DATA # Null /\ loads = 1 /\ registered)

C10_Witness == Handled /\ DATA # Null /\ last.end = "nomatch"

----------------------------------------------------------------------------
(* C11: Unavailable dataset is reported as no match.  When the dataset      *)
(* failed to load, a predict request is answered by onPredict, which shows  *)
(* 'No match found' for a valid query, and the page is not in an error      *)
(* state.                                                                   *)
LoadFailed == pc = "caught"

\* A predict request was made after the failed load.
RequestedAfterFailure ==
    /\ LoadFailed
    /\ last.op \in {"click", "onPredict"}

C11_UnavailableIsNoMatch ==
    RequestedAfterFailure =>
        /\ last.op = "onPredict"
        /\ price # ErrorPrice
        /\ RequiredFieldsGiven =>
               /\ price = NoMatchPrice
               /\ explain = "Try adjusting your search criteria"
               /\ Locals.match = 0

\* What the code does instead: the selects offer nothing to build a valid
\* query from, the click reaches no handler and the page keeps showing the
\* load error.
C11_ErrorStays ==
    RequestedAfterFailure =>
        /\ ~RequiredFieldsGiven
        /\ last = Event("click", "ignored", NoLocals)
        /\ price = ErrorPrice
        /\ explain = "" /\ details = NoDetails /\ toast = ""

C11_Witness ==
    RequestedAfterFailure /\ price = ErrorPrice /\ DATA # Null

----------------------------------------------------------------------------
(* C12: Zero-safe normalization.  For a query whose Mileage, Engine Volume  *)
(* or Airbags is 0 the term of that field is divided by 1, nothing is       *)
(* divided by zero and every row's score is finite.                         *)
\* The query has a zero in one of the three normalizing fields.
ZeroInQuery ==
    Query.Mileage = 0 \/ Query.EngineVolume = 0 \/ Query.Airbags = Num(0)

\* The terms of row r whose query value is 0 are |r - 0| / 1, the row's own
\* value.
ZeroTermsOverOne(r) ==
    /\ Query.Mileage = 0 => mileageDiff(r, Query) = FromInt(r.Mileage)
    /\ Query.EngineVolume = 0 =>
           engineDiff(r, Query) = Litres(r.EngineVolume)
    /\ Query.Airbags = Num(0) => airbagsDiff(r, Query) = FromInt(r.Airbags)

C12_ZeroSafe ==
    (Matched /\ Locals.pass = "nearest" /\ ZeroInQuery) =>
        /\ \A j \in 1..Len(Rows) :
               /\ ZeroTermsOverOne(Rows[j])
               /\ ScoreOf(Rows[j], Query).kind = "fin"
        /\ Rows # <<>> =>
               /\ Locals.match # 0
               /\ Locals.bestScore.kind = "fin"

\* The same statement for queries whose Airbags control is selected.
C12_ZeroSafeAirbagsGiven == ~form.Airbags.blank => C12_ZeroSafe

\* A query with zero Mileage and zero Airbags was scored against a row
\* whose Mileage and Airbags are not zero.
C12_Witness ==
    /\ Matched /\ Locals.pass = "nearest" /\ Locals.match # 0
    /\ Query.Mileage = 0 /\ Query.Airbags = Num(0)
    /\ Rows[Locals.match].Mileage # 0
    /\ Rows[Locals.match].Airbags # 0

====
